---- MODULE Spec2Model ----
(***************************************************************************)
(* A model of the clinic appointment assistant: the CSV-backed domain      *)
(* operations (clinic/tools.py), the in-memory demo store (tools.py), and  *)
(* the tool-calling turn orchestrator in its two variants                  *)
(* (assistant-tools-main.py, assistant-tools-state-main.py).               *)
(***************************************************************************)
EXTENDS Integers, Sequences, FiniteSets, TLC

VARIABLES
    impl,          \* which store the domain operations run against: "csv" | "mem"
    apptfile,      \* APPOINTMENTS_FILE: [exists, rows]
    AVAILABILITY,  \* tools.py: (doctor, date) key -> list of open times
    APPOINTMENTS,  \* tools.py: list of booked records
    now,           \* the wall clock, in whole seconds
    last,          \* the last domain call made directly: which operation, how it ended
    procs,         \* the processes booking side by side: where each is in book_appointment
    variant,       \* which assistant runs: "main" (keeps the transcript) | "state"
    pc,            \* where the session is: "input", "call_llm", "tools", "exited", "aborted", "crashed"
    messages,      \* the transcript handed to call_llm
    pending,       \* the tool calls of the current batch not yet processed
    state,         \* the booking state dict of the state-keeping variant
    last_assistant,\* the previous turn's reply (state-keeping variant)
    reply,         \* what the last finished turn printed: [kind, text]
    requests,      \* how many requests were sent to the model in this session
    error          \* the exception that ended the session, if any

storevars == <<impl, apptfile, AVAILABILITY, APPOINTMENTS, now, last, procs>>
turnvars == <<variant, pc, messages, pending, state, last_assistant, reply, requests, error>>
vars == <<impl, apptfile, AVAILABILITY, APPOINTMENTS, now, last, procs,
          variant, pc, messages, pending, state, last_assistant, reply, requests, error>>

----------------------------------------------------------------------------
(* Bounds of the model *)

\* the clock stops ticking at this second
MaxClock == 1
\* the appointment store never grows beyond this many records
MaxAppts == 2
\* a session sends at most this many requests to the model
MaxRequests == 2

----------------------------------------------------------------------------
(* Values *)

\* a key that the argument object does not carry
Absent == "<absent>"
\* JSON null / Python None
Null == "<null>"

\* results of a call: a returned value, or a raised exception
Ret(v) == [exc |-> "none", val |-> v]
Raise(e) == [exc |-> e, val |-> Null]

RECURSIVE SeqContains(_, _)
\* Python `x in list`
SeqContains(s, x) ==
    IF s = <<>> THEN FALSE
    ELSE IF Head(s) = x THEN TRUE ELSE SeqContains(Tail(s), x)

----------------------------------------------------------------------------
(* Dates: datetime.fromisoformat(date_iso).date().weekday() *)

\* the date strings the callers pass; two of them spell the same calendar day
DateStrings == {"2025-12-22", "2025-12-23", "2025-12-23T00:00", ""}
\* the dates the properties look at: those, and a day of the demo table nobody names
AllDates == DateStrings \cup {"2025-12-24"}

\* what fromisoformat does not parse
NotADate == <<>>

\* datetime.fromisoformat(s).date(): <<year, month, day>>, or NotADate when it raises ValueError
FromIsoFormatDate(s) ==
    CASE s = "2025-12-22" -> <<2025, 12, 22>>
      [] s = "2025-12-23" -> <<2025, 12, 23>>
      [] s = "2025-12-23T00:00" -> <<2025, 12, 23>>
      [] s = "2025-12-24" -> <<2025, 12, 24>>
      [] s = "2025-12-28" -> <<2025, 12, 28>>
      [] OTHER -> NotADate

IsLeap(y) == y % 4 = 0 /\ (y % 100 # 0 \/ y % 400 = 0)

DaysBeforeYear(y) == (y - 1) * 365 + (y - 1) \div 4 - (y - 1) \div 100 + (y - 1) \div 400

DaysBeforeMonth(y, m) ==
    <<0, 31, 59, 90, 120, 151, 181, 212, 243, 273, 304, 334>>[m]
    + (IF m > 2 /\ IsLeap(y) THEN 1 ELSE 0)

ToOrdinal(d) == DaysBeforeYear(d[1]) + DaysBeforeMonth(d[1], d[2]) + d[3]

\* a variant of Weekday that numbers the days as isoweekday() does: Monday is 1
Weekday_Iso(d) == ((ToOrdinal(d) + 6) % 7) + 1

\* date.weekday(): Monday is 0
Weekday(d) == (ToOrdinal(d) + 6) % 7

----------------------------------------------------------------------------
(* The data files read by clinic/tools.py (sample rows) *)

\* doctors.csv as load_doctors() returns it
load_doctors ==
    << [doctor_name |-> "Dr X", specialty |-> "Orthopedics"],
       [doctor_name |-> "Dr Y", specialty |-> "Orthopedics"],
       [doctor_name |-> "Dr A", specialty |-> "General Medicine"] >>

\* schedules.csv as load_schedules() returns it: doctor_name -> rule
load_schedules ==
    [d \in {"Dr X", "Dr Y", "Dr A"} |->
        CASE d = "Dr X" -> [working_days |-> <<0, 1>>, slots |-> <<"10:00", "11:00">>]
          [] d = "Dr Y" -> [working_days |-> <<1>>, slots |-> <<"11:00", "12:00">>]
          [] d = "Dr A" -> [working_days |-> <<2>>, slots |-> <<"10:30">>]]

\* the store before any appointment was saved
NoFile == [exists |-> FALSE, rows |-> <<>>]

\* a store left by an earlier session: one appointment of Dr Y
OldFile ==
    [exists |-> TRUE,
     rows |-> << [appointment_id |-> -1, doctor_name |-> "Dr Y", date_iso |-> "2025-12-23",
                  time_24h |-> "11:00", patient_name |-> "Ravi", patient_phone |-> "777",
                  created_at |-> -1] >>]

\* a store holding a row whose doctor_name is no doctor
StrayFile ==
    [exists |-> TRUE,
     rows |-> << [appointment_id |-> -1, doctor_name |-> "Orthopedics", date_iso |-> "2025-12-23",
                  time_24h |-> "10:00", patient_name |-> "Ravi", patient_phone |-> "777",
                  created_at |-> -1] >>]

\* load_appointments(): no file, no rows
load_appointments(f) == IF ~f.exists THEN <<>> ELSE f.rows

\* a variant of save_appointment that opens the file for writing, not appending
save_appointment_Rewrites(f, record) == [exists |-> TRUE, rows |-> <<record>>]

\* save_appointment(record): create the file with its header if needed, append one row
save_appointment(f, record) == [exists |-> TRUE, rows |-> Append(f.rows, record)]

----------------------------------------------------------------------------
(* clinic/tools.py: get_availability, book_appointment *)

\* a variant of BookedTimes that forgets the date: every booking of the doctor counts
BookedTimes_AnyDate(appointments, doctor_name, date_iso) ==
    {appointments[i].time_24h :
        i \in {j \in DOMAIN appointments : appointments[j].doctor_name = doctor_name}}

RECURSIVE BookedTimes(_, _, _)
\* { a["time_24h"] for a in appointments if a["doctor_name"] == doctor and a["date_iso"] == date }
BookedTimes(appointments, doctor_name, date_iso) ==
    IF appointments = <<>> THEN {}
    ELSE LET a == Head(appointments)
             rest == BookedTimes(Tail(appointments), doctor_name, date_iso)
         IN IF a.doctor_name = doctor_name /\ a.date_iso = date_iso
            THEN rest \cup {a.time_24h} ELSE rest

RECURSIVE SlotsNotIn(_, _)
\* [s for s in slots if s not in booked]
SlotsNotIn(slots, booked) ==
    IF slots = <<>> THEN <<>>
    ELSE IF Head(slots) \in booked THEN SlotsNotIn(Tail(slots), booked)
         ELSE <<Head(slots)>> \o SlotsNotIn(Tail(slots), booked)

\* a variant of get_availability that parses the date before it looks the doctor up
get_availability_DateFirst(f, doctor_name, date_iso) ==
    LET d == FromIsoFormatDate(date_iso)
    IN IF d = NotADate THEN Raise("ValueError")
       ELSE IF doctor_name \notin DOMAIN load_schedules THEN Ret(<<>>)
       ELSE LET rule == load_schedules[doctor_name]
            IN IF ~SeqContains(rule.working_days, Weekday(d)) THEN Ret(<<>>)
               ELSE Ret(SlotsNotIn(rule.slots,
                                   BookedTimes(load_appointments(f), doctor_name, date_iso)))

get_availability(f, doctor_name, date_iso) ==
    LET schedules == load_schedules
        appointments == load_appointments(f)
    IN IF doctor_name \notin DOMAIN schedules THEN Ret(<<>>)
       ELSE LET d == FromIsoFormatDate(date_iso)
            IN IF d = NotADate THEN Raise("ValueError")
               ELSE LET rule == schedules[doctor_name]
                    IN IF ~SeqContains(rule.working_days, Weekday(d)) THEN Ret(<<>>)
                       ELSE Ret(SlotsNotIn(rule.slots,
                                           BookedTimes(appointments, doctor_name, date_iso)))

\* a variant of book_appointment that trusts the caller's earlier lookup: it checks
\* the time against the configured slots, not against the store
book_appointment_Unchecked(f, clock, doctor_name, date_iso, time_24h, patient) ==
    LET available == get_availability(NoFile, doctor_name, date_iso)
        record == [appointment_id |-> clock,
                   doctor_name |-> doctor_name,
                   date_iso |-> date_iso,
                   time_24h |-> time_24h,
                   patient_name |-> patient.name,
                   patient_phone |-> patient.phone,
                   created_at |-> clock]
    IN IF available.exc # "none" THEN [exc |-> available.exc, val |-> Null, file |-> f]
       ELSE IF ~SeqContains(available.val, time_24h)
       THEN [exc |-> "none", file |-> f,
             val |-> [status |-> "failed", reason |-> "slot_not_available"]]
       ELSE IF "name" \notin DOMAIN patient \/ "phone" \notin DOMAIN patient
       THEN [exc |-> "KeyError", val |-> Null, file |-> f]
       ELSE [exc |-> "none", file |-> save_appointment(f, record),
             val |-> [status |-> "confirmed", appointment |-> record]]

\* a variant of book_appointment that writes a row for the request before it
\* checks the slot
book_appointment_SavesFirst(f, clock, doctor_name, date_iso, time_24h, patient) ==
    LET available == get_availability(f, doctor_name, date_iso)
        record == [appointment_id |-> clock,
                   doctor_name |-> doctor_name,
                   date_iso |-> date_iso,
                   time_24h |-> time_24h,
                   patient_name |-> patient.name,
                   patient_phone |-> patient.phone,
                   created_at |-> clock]
    IN IF available.exc # "none" THEN [exc |-> available.exc, val |-> Null, file |-> f]
       ELSE IF "name" \notin DOMAIN patient \/ "phone" \notin DOMAIN patient
       THEN [exc |-> "KeyError", val |-> Null, file |-> f]
       ELSE IF ~SeqContains(available.val, time_24h)
       THEN [exc |-> "none", file |-> save_appointment(f, record),
             val |-> [status |-> "failed", reason |-> "slot_not_available"]]
       ELSE [exc |-> "none", file |-> save_appointment(f, record),
             val |-> [status |-> "confirmed", appointment |-> record]]

\* the outcome of book_appointment and the store it leaves: [exc, val, file]
book_appointment(f, clock, doctor_name, date_iso, time_24h, patient) ==
    LET available == get_availability(f, doctor_name, date_iso)
    IN IF available.exc # "none" THEN [exc |-> available.exc, val |-> Null, file |-> f]
       ELSE IF ~SeqContains(available.val, time_24h)
       THEN [exc |-> "none", file |-> f,
             val |-> [status |-> "failed", reason |-> "slot_not_available"]]
       ELSE IF "name" \notin DOMAIN patient \/ "phone" \notin DOMAIN patient
       THEN [exc |-> "KeyError", val |-> Null, file |-> f]
       ELSE LET record == [appointment_id |-> clock,
                           doctor_name |-> doctor_name,
                           date_iso |-> date_iso,
                           time_24h |-> time_24h,
                           patient_name |-> patient.name,
                           patient_phone |-> patient.phone,
                           created_at |-> clock]
            IN [exc |-> "none", file |-> save_appointment(f, record),
                val |-> [status |-> "confirmed", appointment |-> record]]

----------------------------------------------------------------------------
(* tools.py: the in-memory demo store *)

\* f"{doctor_name}|{date_iso}": the stored keys hold one "|", so a key matches
\* exactly when both parts match
Key(doctor_name, date_iso) == <<doctor_name, date_iso>>

AVAILABILITY0 ==
    [k \in {Key("Dr X", "2025-12-23"), Key("Dr X", "2025-12-24"), Key("Dr Y", "2025-12-23")} |->
        CASE k = Key("Dr X", "2025-12-23") -> <<"10:00", "11:00">>
          [] k = Key("Dr X", "2025-12-24") -> <<"10:30", "11:30">>
          [] k = Key("Dr Y", "2025-12-23") -> <<"11:00", "12:00">>]

\* AVAILABILITY.get(key, [])
mem_get_availability(avail, doctor_name, date_iso) ==
    LET key == Key(doctor_name, date_iso)
    IN IF key \in DOMAIN avail THEN avail[key] ELSE <<>>

RECURSIVE ListRemove(_, _)
\* list.remove(x): drops the first occurrence
ListRemove(s, x) ==
    IF s = <<>> THEN <<>>
    ELSE IF Head(s) = x THEN Tail(s) ELSE <<Head(s)>> \o ListRemove(Tail(s), x)

\* the outcome of the demo book_appointment and the tables it leaves
mem_book_appointment(avail, appts, doctor_name, date_iso, time_24h, patient) ==
    LET key == Key(doctor_name, date_iso)
        slots == mem_get_availability(avail, doctor_name, date_iso)
    IN IF ~SeqContains(slots, time_24h)
       THEN [avail |-> avail, appts |-> appts,
             val |-> [status |-> "failed", reason |-> "slot_not_available",
                      doctor |-> doctor_name, date |-> date_iso, time |-> time_24h]]
       ELSE LET record == [id |-> Len(appts) + 1, doctor |-> doctor_name, date |-> date_iso,
                           time |-> time_24h, patient |-> patient]
            IN [avail |-> [k \in DOMAIN avail \cup {key} |->
                              IF k = key THEN ListRemove(slots, time_24h) ELSE avail[k]],
                appts |-> Append(appts, record),
                val |-> [status |-> "confirmed", appointment |-> record]]

----------------------------------------------------------------------------
(* Strings: str.strip() and str.lower() on the strings that occur *)

Strip(s) ==
    CASE s = " Quit " -> "Quit"
      [] s = " Dr X " -> "Dr X"
      [] OTHER -> s

Lower(s) ==
    CASE s = "Dr X" -> "dr x"
      [] s = "Dr Y" -> "dr y"
      [] s = "Dr A" -> "dr a"
      [] s = " Dr X " -> " dr x "
      [] s = "Orthopedics" -> "orthopedics"
      [] s = "General Medicine" -> "general medicine"
      [] s = "Dentistry" -> "dentistry"
      [] s = "Quit" -> "quit"
      [] s = "EXIT" -> "exit"
      [] OTHER -> s

\* the strings in ascending code-point order, as sorted() orders them
StringOrder == <<"Dentistry", "General Medicine", "Orthopedics">>

----------------------------------------------------------------------------
(* clinic/tools.py: the read-only lookups *)

RECURSIVE SpecialtySet(_)
\* {d["specialty"] for d in doctors}
SpecialtySet(doctors) ==
    IF doctors = <<>> THEN {} ELSE {Head(doctors).specialty} \cup SpecialtySet(Tail(doctors))

\* sorted({d["specialty"] for d in doctors})
list_specialties ==
    LET have == SpecialtySet(load_doctors)
    IN SelectSeq(StringOrder, LAMBDA x : x \in have)

RECURSIVE DoctorsWithSpecialty(_, _)
\* [d for d in doctors if d["specialty"].lower() == s]
DoctorsWithSpecialty(doctors, s) ==
    IF doctors = <<>> THEN <<>>
    ELSE IF Lower(Head(doctors).specialty) = s
         THEN <<Head(doctors)>> \o DoctorsWithSpecialty(Tail(doctors), s)
         ELSE DoctorsWithSpecialty(Tail(doctors), s)

find_doctors(specialty) == DoctorsWithSpecialty(load_doctors, Lower(specialty))

\* tools.py find_doctors: strips the argument too, and returns name/specialty pairs
mem_find_doctors(specialty) ==
    LET found == DoctorsWithSpecialty(load_doctors, Lower(Strip(specialty)))
    IN [i \in DOMAIN found |-> [name |-> found[i].doctor_name, specialty |-> found[i].specialty]]

\* the clock reads a second of Monday 2025-12-22
get_current_datetime(clock, timezone) ==
    [timezone |-> timezone, iso_datetime |-> clock, date_iso |-> "2025-12-22",
     weekday |-> "Monday"]

----------------------------------------------------------------------------
(* The assistants: tool calls, argument strings, messages *)

\* a JSON object: a function from the keys it carries to their values
Obj(o) == [kind |-> "obj", obj |-> o]
\* the empty argument string
EmptyArgs == [kind |-> "empty"]
\* an argument string that is not JSON
BadArgs == [kind |-> "bad"]
\* a tool call that carries no "arguments" key
NoArgs == [kind |-> "missing"]

\* dict.get(key, default)
Get(o, key, default) == IF key \in DOMAIN o THEN o[key] ELSE default

\* json.loads(arguments_json): [ok, obj]; not ok when it raises JSONDecodeError
JsonLoads(a) == IF a.kind = "obj" THEN [ok |-> TRUE, obj |-> a.obj] ELSE [ok |-> FALSE, obj |-> <<>>]

\* json.dumps(result)
JsonDumps(v) == <<"json", v>>

\* bool(arguments_json)
Truthy(a) == a.kind # "empty"

CANNED ==
    "Sorry, we do not have any doctors with that specialty at Super Clinic. Is there anything else I can help you with?"

RECURSIVE AnyDoctorNamed(_, _)
\* any(d["doctor_name"].strip().lower() == name.strip().lower() for d in doctors)
AnyDoctorNamed(doctors, name) ==
    IF doctors = <<>> THEN FALSE
    ELSE IF Lower(Strip(Head(doctors).doctor_name)) = Lower(Strip(name)) THEN TRUE
         ELSE AnyDoctorNamed(Tail(doctors), name)

doctor_exists(name) == AnyDoctorNamed(load_doctors, name)

StateFields ==
    {"patient_name", "patient_age", "patient_phone", "specialty", "doctor_name",
     "date_iso", "time_24h"}

\* the state dict main() starts with
State0 == [k \in StateFields |-> Null]

\* f"{value}": None prints as None
Render(v) == IF v = Null THEN "None" ELSE v

\* a variant of state_snapshot that renders the state the session started with
state_snapshot_Initial(st) ==
    <<"CURRENT BOOKING STATE (authoritative):", [k \in DOMAIN st |-> "None"]>>

\* state_snapshot(state): the fixed text around the seven rendered fields
state_snapshot(st) ==
    <<"CURRENT BOOKING STATE (authoritative):",
      [k \in StateFields |-> Render(Get(st, k, Null))]>>

\* a message without a "tool_calls" key, one whose "tool_calls" is null, one without an id
NoToolCalls == [kind |-> "absent", list |-> <<>>]
NullToolCalls == [kind |-> "null", list |-> <<>>]
\* a "tool_calls" list
ToolCallList(l) == [kind |-> "list", list |-> l]
NoId == <<>>

Msg(role, content) ==
    [role |-> role, content |-> content, tool_calls |-> NoToolCalls, tool_call_id |-> NoId]

\* the assistant message as the endpoint returned it
AssistantMsg(content, tool_calls) ==
    [role |-> "assistant", content |-> content, tool_calls |-> tool_calls,
     tool_call_id |-> NoId]

\* a variant of ToolMsg that leaves the correlation identifier out
ToolMsg_NoId(call_id, result) ==
    [role |-> "tool", content |-> JsonDumps(result), tool_calls |-> NoToolCalls,
     tool_call_id |-> NoId]

ToolMsg(call_id, result) ==
    [role |-> "tool", content |-> JsonDumps(result), tool_calls |-> NoToolCalls,
     tool_call_id |-> call_id]

SpecialtiesMsg == Msg("system", <<"Available specialties in Super Clinic (from DB):", list_specialties>>)

\* the turn variables while no session runs
TurnOff ==
    /\ variant = "none"
    /\ pc = "off"
    /\ messages = <<>>
    /\ pending = <<>>
    /\ state = State0
    /\ last_assistant = Null
    /\ reply = [kind |-> "none", text |-> ""]
    /\ requests = 0
    /\ error = "none"

----------------------------------------------------------------------------
(* Direct, sequential use of the domain operations *)

DoctorArgs == {"Dr X", "Dr Y", "dr x", "Orthopedics"}
TimeArgs == {"10:00", "11:00", "09:00"}
\* patient dicts: complete, and without a phone
PatientArgs == { [name |-> "Asha", phone |-> "555"], [name |-> "Asha"] }

\* no process is inside book_appointment
NoProcs == <<>>

\* the last direct call: which operation, and how it ended
NoCall == [op |-> "none", outcome |-> "none"]

InitStore ==
    /\ impl \in {"csv", "mem"}
    /\ apptfile \in (IF impl = "csv" THEN {NoFile, OldFile, StrayFile} ELSE {NoFile})
    /\ AVAILABILITY = AVAILABILITY0
    /\ APPOINTMENTS = <<>>
    /\ now = 0
    /\ last = NoCall
    /\ procs = NoProcs
    /\ TurnOff

\* a caller asks the CSV-backed store for a doctor's open slots
CallGetAvailability ==
    /\ impl = "csv"
    /\ \E d \in DoctorArgs, date \in DateStrings :
          LET r == get_availability(apptfile, d, date)
          IN last' = [op |-> "get_availability",
                      outcome |-> IF r.exc # "none" THEN r.exc ELSE "returned"]
    /\ UNCHANGED <<impl, apptfile, AVAILABILITY, APPOINTMENTS, now, procs>>
    /\ UNCHANGED turnvars

\* a caller books against the CSV-backed store
CallBookAppointment ==
    /\ impl = "csv"
    /\ \E d \in DoctorArgs, date \in DateStrings, t \in TimeArgs, p \in PatientArgs :
          LET r == book_appointment(apptfile, now, d, date, t, p)
          IN /\ Len(r.file.rows) <= MaxAppts
             /\ apptfile' = r.file
             /\ last' = [op |-> "book_appointment",
                         outcome |-> IF r.exc # "none" THEN r.exc ELSE r.val.status]
    /\ UNCHANGED <<impl, AVAILABILITY, APPOINTMENTS, now, procs>>
    /\ UNCHANGED turnvars

\* a variant of CallMemGetAvailability that takes the list out of the table
\* (AVAILABILITY.pop(key, []) in place of AVAILABILITY.get(key, []))
CallMemGetAvailability_Pops ==
    /\ impl = "mem"
    /\ \E d \in DoctorArgs, date \in DateStrings :
          /\ AVAILABILITY' = [k \in DOMAIN AVAILABILITY \ {Key(d, date)} |-> AVAILABILITY[k]]
          /\ last' = [op |-> "get_availability", outcome |-> "returned"]
    /\ UNCHANGED <<impl, apptfile, APPOINTMENTS, now, procs>>
    /\ UNCHANGED turnvars

\* a caller asks the demo store for a doctor's open slots
CallMemGetAvailability ==
    /\ impl = "mem"
    /\ \E d \in DoctorArgs, date \in DateStrings :
          LET r == Ret(mem_get_availability(AVAILABILITY, d, date))
          IN last' = [op |-> "get_availability",
                      outcome |-> IF r.exc # "none" THEN r.exc ELSE "returned"]
    /\ UNCHANGED <<impl, apptfile, AVAILABILITY, APPOINTMENTS, now, procs>>
    /\ UNCHANGED turnvars

\* a caller books against the demo store
CallMemBookAppointment ==
    /\ impl = "mem"
    /\ \E d \in DoctorArgs, date \in DateStrings, t \in TimeArgs, p \in PatientArgs :
          LET r == mem_book_appointment(AVAILABILITY, APPOINTMENTS, d, date, t, p)
          IN /\ Len(r.appts) <= MaxAppts
             /\ AVAILABILITY' = r.avail
             /\ APPOINTMENTS' = r.appts
             /\ last' = [op |-> "book_appointment", outcome |-> r.val.status]
    /\ UNCHANGED <<impl, apptfile, now, procs>>
    /\ UNCHANGED turnvars

\* the specialties a caller may name
SpecialtyArgs == {"Orthopedics", "orthopedics", "Dentistry"}

\* a caller searches the doctors of a specialty
CallFindDoctors ==
    /\ \E sp \in SpecialtyArgs :
          LET found == IF impl = "csv" THEN find_doctors(sp) ELSE mem_find_doctors(sp)
          IN /\ found \in Seq({found[i] : i \in DOMAIN found})
             /\ last' = [op |-> "find_doctors", outcome |-> "returned"]
    /\ UNCHANGED <<impl, apptfile, AVAILABILITY, APPOINTMENTS, now, procs>>
    /\ UNCHANGED turnvars

\* a caller lists the specialties
CallListSpecialties ==
    /\ impl = "csv"
    /\ last' = [op |-> "list_specialties", outcome |-> "returned"]
    /\ UNCHANGED <<impl, apptfile, AVAILABILITY, APPOINTMENTS, now, procs>>
    /\ UNCHANGED turnvars

\* a second passes
Tick ==
    /\ now < MaxClock
    /\ now' = now + 1
    /\ UNCHANGED <<impl, apptfile, AVAILABILITY, APPOINTMENTS, last, procs>>
    /\ UNCHANGED turnvars

NextStore ==
    \/ CallGetAvailability
    \/ CallBookAppointment
    \/ CallMemGetAvailability
    \/ CallMemBookAppointment
    \/ CallFindDoctors
    \/ CallListSpecialties
    \/ Tick

SpecStore == InitStore /\ [][NextStore]_vars

----------------------------------------------------------------------------
(* The same calls made to the CSV-backed store and to the demo store *)

\* the dates the two stores are started with: a Monday and a Tuesday
BothDates == {"2025-12-22", "2025-12-23"}

\* the slots the schedule opens for a doctor on a date while nothing is booked
ConfiguredSlots(doctor_name, date_iso) == get_availability(NoFile, doctor_name, date_iso).val

\* the demo table started with the open slots of the CSV-backed store: one key for
\* each doctor of the schedule and each of the dates the doctor works on
AVAILABILITY_FromSchedule ==
    [k \in {kk \in {Key(d, date) : d \in DOMAIN load_schedules, date \in BothDates} :
               ConfiguredSlots(kk[1], kk[2]) # <<>>}
       |-> ConfiguredSlots(k[1], k[2])]

InitBoth ==
    /\ impl = "both"
    /\ apptfile = NoFile
    /\ AVAILABILITY = AVAILABILITY_FromSchedule
    /\ APPOINTMENTS = <<>>
    /\ now = 0
    /\ last = NoCall
    /\ procs = NoProcs
    /\ TurnOff

\* a caller asks both stores for a doctor's open slots
BothGetAvailability ==
    /\ impl = "both"
    /\ \E d \in DoctorArgs, date \in BothDates :
          LET r == get_availability(apptfile, d, date)
              m == mem_get_availability(AVAILABILITY, d, date)
          IN last' = [op |-> "get_availability",
                      outcome |-> IF r.exc # "none" THEN r.exc ELSE "returned",
                      csv |-> r.val,
                      mem |-> m]
    /\ UNCHANGED <<impl, apptfile, AVAILABILITY, APPOINTMENTS, now, procs>>
    /\ UNCHANGED turnvars

\* a caller makes the same booking in both stores
BothBookAppointment ==
    /\ impl = "both"
    /\ \E d \in DoctorArgs, date \in BothDates, t \in TimeArgs, p \in PatientArgs :
          LET r == book_appointment(apptfile, now, d, date, t, p)
              m == mem_book_appointment(AVAILABILITY, APPOINTMENTS, d, date, t, p)
          IN /\ Len(r.file.rows) <= MaxAppts
             /\ Len(m.appts) <= MaxAppts
             /\ apptfile' = r.file
             /\ AVAILABILITY' = m.avail
             /\ APPOINTMENTS' = m.appts
             /\ last' = [op |-> "book_appointment",
                         outcome |-> IF r.exc # "none" THEN r.exc ELSE r.val.status,
                         csv |-> IF r.exc # "none" THEN r.exc ELSE r.val.status,
                         mem |-> m.val.status]
    /\ UNCHANGED <<impl, now, procs>>
    /\ UNCHANGED turnvars

NextBoth ==
    \/ BothGetAvailability
    \/ BothBookAppointment

SpecBoth == InitBoth /\ [][NextBoth]_vars

----------------------------------------------------------------------------
(* book_appointment called by two processes against one appointments file *)

\* book_appointment from the availability test on, for a time the test found open:
\* a variant that holds a lock from the test to the write, so that the test is
\* made against the file the record is written to
book_appointment_write_Locked(f, clock, doctor_name, date_iso, time_24h, patient) ==
    book_appointment(f, clock, doctor_name, date_iso, time_24h, patient)

\* book_appointment after the availability test passed: build the record, append it
book_appointment_write(f, clock, doctor_name, date_iso, time_24h, patient) ==
    IF "name" \notin DOMAIN patient \/ "phone" \notin DOMAIN patient
    THEN [exc |-> "KeyError", val |-> Null, file |-> f]
    ELSE LET record == [appointment_id |-> clock,
                        doctor_name |-> doctor_name,
                        date_iso |-> date_iso,
                        time_24h |-> time_24h,
                        patient_name |-> patient.name,
                        patient_phone |-> patient.phone,
                        created_at |-> clock]
         IN [exc |-> "none", file |-> save_appointment(f, record),
             val |-> [status |-> "confirmed", appointment |-> record]]

Procs == {1, 2}
RaceDoctors == {"Dr X", "Dr Y"}
RaceDates == {"2025-12-22", "2025-12-23"}

\* a process that has not called book_appointment yet
Idle == [pc |-> "idle", args |-> <<>>, seen |-> 0, passed |-> FALSE, outcome |-> "none"]

InitRace ==
    /\ impl = "csv"
    /\ apptfile \in {NoFile, OldFile}
    /\ AVAILABILITY = AVAILABILITY0
    /\ APPOINTMENTS = <<>>
    /\ now = 0
    /\ last = NoCall
    /\ procs = [p \in Procs |-> Idle]
    /\ TurnOff

\* process p enters book_appointment: it reads the file and tests the requested time
\* against the availability it computes; `seen` is the number of rows it read
RaceCheck(p) ==
    /\ procs[p].pc = "idle"
    /\ \E d \in RaceDoctors, date \in RaceDates, t \in TimeArgs, pt \in PatientArgs :
          LET available == get_availability(apptfile, d, date)
              open == available.exc = "none" /\ SeqContains(available.val, t)
          IN procs' = [procs EXCEPT ![p] =
                [pc |-> IF open THEN "checked" ELSE "done",
                 args |-> [doctor_name |-> d, date_iso |-> date, time_24h |-> t, patient |-> pt],
                 seen |-> Len(load_appointments(apptfile)),
                 passed |-> open,
                 outcome |-> IF available.exc # "none" THEN available.exc
                             ELSE IF open THEN "none" ELSE "failed"]]
    /\ UNCHANGED <<impl, apptfile, AVAILABILITY, APPOINTMENTS, now, last>>
    /\ UNCHANGED turnvars

\* process p goes on from the test it passed: it builds its record and appends it
RaceWrite(p) ==
    /\ procs[p].pc = "checked"
    /\ LET a == procs[p].args
           r == book_appointment_write(apptfile, now, a.doctor_name, a.date_iso,
                                       a.time_24h, a.patient)
       IN /\ apptfile' = r.file
          /\ procs' = [procs EXCEPT ![p].pc = "done",
                                    ![p].outcome = IF r.exc # "none" THEN r.exc
                                                   ELSE r.val.status]
    /\ UNCHANGED <<impl, AVAILABILITY, APPOINTMENTS, now, last>>
    /\ UNCHANGED turnvars

NextRace ==
    \/ \E p \in Procs : RaceCheck(p)
    \/ \E p \in Procs : RaceWrite(p)
    \/ Tick

SpecRace == InitRace /\ [][NextRace]_vars

----------------------------------------------------------------------------
(* clinic/state.py: ConversationState and its derived predicate *)

\* bool(v) of an Optional[str]: None and the empty string are false
Truth(v) == v \notin {Null, ""}

\* ConversationState.is_ready_to_book: all([...]) over the listed attributes
is_ready_to_book(st) ==
    /\ Truth(st.patient_name)
    /\ Truth(st.patient_phone)
    /\ (Truth(st.specialty) \/ Truth(st.doctor_name))
    /\ Truth(st.doctor_name)
    /\ Truth(st.date_iso)
    /\ Truth(st.time_24h)

\* the values an attribute may hold: unset, the empty string, a text
FieldValues(k) ==
    CASE k = "patient_name" -> {Null, "", "Asha"}
      [] k = "patient_phone" -> {Null, "", "555"}
      [] k = "patient_age" -> {Null, "30"}
      [] k = "specialty" -> {Null, "", "Orthopedics"}
      [] k = "doctor_name" -> {Null, "", "Dr X"}
      [] k = "date_iso" -> {Null, "", "2025-12-22"}
      [] k = "time_24h" -> {Null, "", "10:00"}

\* a ConversationState with any attribute values, and nothing else running
InitReady ==
    /\ impl = "none"
    /\ apptfile = NoFile
    /\ AVAILABILITY = AVAILABILITY0
    /\ APPOINTMENTS = <<>>
    /\ now = 0
    /\ last = NoCall
    /\ procs = NoProcs
    /\ variant = "none"
    /\ pc = "off"
    /\ messages = <<>>
    /\ pending = <<>>
    /\ state \in {st \in [StateFields -> UNION {FieldValues(k) : k \in StateFields}] :
                      \A k \in StateFields : st[k] \in FieldValues(k)}
    /\ last_assistant = Null
    /\ reply = [kind |-> "none", text |-> ""]
    /\ requests = 0
    /\ error = "none"

\* a caller asks whether the state is ready to book
CallIsReadyToBook ==
    /\ last' = [op |-> "is_ready_to_book",
                outcome |-> IF is_ready_to_book(state) THEN "True" ELSE "False"]
    /\ UNCHANGED <<impl, apptfile, AVAILABILITY, APPOINTMENTS, now, procs>>
    /\ UNCHANGED turnvars

\* a caller assigns an attribute of the state
AssignField ==
    /\ last.op = "is_ready_to_book"
    /\ \E k \in StateFields :
          \E v \in FieldValues(k) : state' = [state EXCEPT ![k] = v]
    /\ last' = NoCall
    /\ UNCHANGED <<impl, apptfile, AVAILABILITY, APPOINTMENTS, now, procs>>
    /\ UNCHANGED <<variant, pc, messages, pending, last_assistant, reply, requests, error>>

NextReady ==
    \/ CallIsReadyToBook
    \/ AssignField

SpecReady == InitReady /\ [][NextReady]_vars

----------------------------------------------------------------------------
(* execute_tool and one iteration of run_turn's loop over the tool calls *)

\* the parsed arguments execute_tool works on: {} for an empty argument string
ArgsOf(a) == IF Truthy(a) THEN JsonLoads(a).obj ELSE <<>>

\* args.get("patient", {}) or {}: the patient object, {} when the key is missing
PatientOf(args) == Get(args, "patient", <<>>)

\* assistant-tools-main.py execute_tool: [exc, val, file]
execute_tool(tool_name, arguments_json, f, clock) ==
    IF Truthy(arguments_json) /\ ~JsonLoads(arguments_json).ok
    THEN [exc |-> "JSONDecodeError", val |-> Null, file |-> f]
    ELSE LET args == ArgsOf(arguments_json)
         IN CASE tool_name = "find_doctors" ->
                   [exc |-> "none", val |-> find_doctors(Get(args, "specialty", "")), file |-> f]
              [] tool_name = "get_availability" ->
                   LET r == get_availability(f, Get(args, "doctor_name", ""),
                                             Get(args, "date_iso", ""))
                   IN [exc |-> r.exc, val |-> r.val, file |-> f]
              [] tool_name = "book_appointment" ->
                   book_appointment(f, clock, Get(args, "doctor_name", ""),
                                    Get(args, "date_iso", ""), Get(args, "time_24h", ""),
                                    PatientOf(args))
              [] tool_name = "list_specialties" ->
                   [exc |-> "none", val |-> list_specialties, file |-> f]
              [] tool_name = "get_current_datetime" ->
                   [exc |-> "none", file |-> f,
                    val |-> get_current_datetime(clock, Get(args, "timezone", "Asia/Kolkata"))]
              [] OTHER ->
                   [exc |-> "none", val |-> [error |-> <<"Unknown tool:", tool_name>>],
                    file |-> f]

\* a variant of ApplyUpdates without the `if k in state` test: every key is stored
ApplyUpdates_NoKeyCheck(st, updates, keys) ==
    [k \in DOMAIN st \cup keys |-> IF k \in keys THEN updates[k] ELSE st[k]]

RECURSIVE ApplyUpdates(_, _, _)
\* for k, v in updates.items(): if k in state: state[k] = v
ApplyUpdates(st, updates, keys) ==
    IF keys = {} THEN st
    ELSE LET k == CHOOSE x \in keys : TRUE
         IN ApplyUpdates(IF k \in DOMAIN st THEN [st EXCEPT ![k] = updates[k]] ELSE st,
                         updates, keys \ {k})

\* a variant of execute_tool (state-keeping assistant) that also notes the searched
\* specialty in the state
execute_tool_state_NotesSearch(tool_name, arguments_json, f, clock, st) ==
    IF Truthy(arguments_json) /\ ~JsonLoads(arguments_json).ok
    THEN [exc |-> "JSONDecodeError", val |-> Null, file |-> f, state |-> st]
    ELSE IF tool_name = "update_state"
    THEN LET updates == ArgsOf(arguments_json)
         IN [exc |-> "none", file |-> f,
             state |-> ApplyUpdates(st, updates, DOMAIN updates),
             val |-> [status |-> "ok", updated |-> DOMAIN updates]]
    ELSE LET r == execute_tool(tool_name, arguments_json, f, clock)
         IN [exc |-> r.exc, val |-> r.val, file |-> r.file,
             state |-> IF tool_name = "find_doctors"
                       THEN [st EXCEPT !["specialty"] =
                                Get(ArgsOf(arguments_json), "specialty", Null)]
                       ELSE st]

\* assistant-tools-state-main.py execute_tool: [exc, val, file, state];
\* "updated" lists the keys of the argument object (their order is not modelled)
execute_tool_state(tool_name, arguments_json, f, clock, st) ==
    IF Truthy(arguments_json) /\ ~JsonLoads(arguments_json).ok
    THEN [exc |-> "JSONDecodeError", val |-> Null, file |-> f, state |-> st]
    ELSE IF tool_name = "update_state"
    THEN LET updates == ArgsOf(arguments_json)
         IN [exc |-> "none", file |-> f,
             state |-> ApplyUpdates(st, updates, DOMAIN updates),
             val |-> [status |-> "ok", updated |-> DOMAIN updates]]
    ELSE LET r == execute_tool(tool_name, arguments_json, f, clock)
         IN [exc |-> r.exc, val |-> r.val, file |-> r.file, state |-> st]

\* a variant of the loop body that, when a guard fires, takes back the rows the
\* turn has written so far
DispatchMain_RollsBack(tc, f, clock) ==
    LET fn == tc.function.name
        args_json == tc.function.arguments
        back == [f EXCEPT !.rows = SelectSeq(f.rows, LAMBDA a : a.appointment_id # clock)]
    IN IF args_json.kind = "missing"
       THEN [kind |-> "crash", exc |-> "KeyError", val |-> Null, file |-> f]
       ELSE IF fn = "get_availability" /\ ~JsonLoads(args_json).ok
       THEN [kind |-> "crash", exc |-> "JSONDecodeError", val |-> Null, file |-> f]
       ELSE IF fn = "get_availability"
               /\ ~doctor_exists(Get(JsonLoads(args_json).obj, "doctor_name", ""))
       THEN [kind |-> "guard", exc |-> "none", val |-> CANNED, file |-> back]
       ELSE LET r == execute_tool(fn, args_json, f, clock)
            IN IF r.exc # "none"
               THEN [kind |-> "crash", exc |-> r.exc, val |-> Null, file |-> f]
               ELSE IF fn = "find_doctors" /\ r.val = <<>>
               THEN [kind |-> "guard", exc |-> "none", val |-> CANNED, file |-> back]
               ELSE [kind |-> "result", exc |-> "none", val |-> r.val, file |-> r.file]

\* assistant-tools-main.py run_turn, the body of `for tc in tool_calls`:
\* [kind, exc, val, file] with kind "crash" | "guard" | "result"
DispatchMain(tc, f, clock) ==
    LET fn == tc.function.name
        args_json == tc.function.arguments
    IN IF args_json.kind = "missing"
       THEN [kind |-> "crash", exc |-> "KeyError", val |-> Null, file |-> f]
       ELSE IF fn = "get_availability" /\ ~JsonLoads(args_json).ok
       THEN [kind |-> "crash", exc |-> "JSONDecodeError", val |-> Null, file |-> f]
       ELSE IF fn = "get_availability"
               /\ ~doctor_exists(Get(JsonLoads(args_json).obj, "doctor_name", ""))
       THEN [kind |-> "guard", exc |-> "none", val |-> CANNED, file |-> f]
       ELSE LET r == execute_tool(fn, args_json, f, clock)
            IN IF r.exc # "none"
               THEN [kind |-> "crash", exc |-> r.exc, val |-> Null, file |-> f]
               ELSE IF fn = "find_doctors" /\ r.val = <<>>
               THEN [kind |-> "guard", exc |-> "none", val |-> CANNED, file |-> r.file]
               ELSE [kind |-> "result", exc |-> "none", val |-> r.val, file |-> r.file]

\* assistant-tools-state-main.py run_turn, the body of `for tc in tool_calls`:
\* [kind, exc, val, file, state] with kind "crash" | "result"
DispatchState(tc, f, clock, st) ==
    LET fn == tc.function.name
        args_json == tc.function.arguments
    IN IF args_json.kind = "missing"
       THEN [kind |-> "crash", exc |-> "KeyError", val |-> Null, file |-> f, state |-> st]
       ELSE LET r == execute_tool_state(fn, args_json, f, clock, st)
            IN IF r.exc # "none"
               THEN [kind |-> "crash", exc |-> r.exc, val |-> Null, file |-> f, state |-> st]
               ELSE [kind |-> "result", exc |-> "none", val |-> r.val, file |-> r.file,
                     state |-> r.state]

----------------------------------------------------------------------------
(* What the user types and what the model answers *)

UserTexts == {"hi", "exit", " Quit "}

TC(name, arguments) == [function |-> [name |-> name, arguments |-> arguments]]

BookX10 ==
    TC("book_appointment",
       Obj([doctor_name |-> "Dr X", date_iso |-> "2025-12-22", time_24h |-> "10:00",
            patient |-> [name |-> "Asha", phone |-> "555"]]))
FindOrtho == TC("find_doctors", Obj([specialty |-> "Orthopedics"]))
FindDentist == TC("find_doctors", Obj([specialty |-> "Dentistry"]))
AvailX == TC("get_availability", Obj([doctor_name |-> "Dr X", date_iso |-> "2025-12-22"]))
AvailOrtho ==
    TC("get_availability", Obj([doctor_name |-> "Orthopedics", date_iso |-> "2025-12-22"]))
SetDoctorX == TC("update_state", Obj([doctor_name |-> "Dr X"]))

\* the tool calls the model may issue
ToolCalls ==
    { FindOrtho, FindDentist, AvailX, AvailOrtho, BookX10, SetDoctorX,
      TC("find_doctors", EmptyArgs),
      TC("get_availability", Obj([doctor_name |-> "dr x", date_iso |-> "2025-12-22"])),
      TC("get_availability", Obj([doctor_name |-> "Dr X"])),
      TC("get_availability", EmptyArgs),
      TC("get_availability", NoArgs),
      TC("book_appointment",
         Obj([doctor_name |-> "Dr X", date_iso |-> "2025-12-22", time_24h |-> "11:00",
              patient |-> [name |-> "Asha"]])),
      TC("book_appointment", EmptyArgs),
      TC("list_specialties", EmptyArgs),
      TC("list_specialties", BadArgs),
      TC("get_current_datetime", EmptyArgs),
      TC("update_state", Obj([doctor_name |-> Null, notes |-> "x"])),
      TC("update_state", Obj([patient_name |-> "Asha", doctor_name |-> "Dr Y"])),
      TC("cancel_appointment", EmptyArgs) }

\* the batches the model may issue: any single call, and some pairs
Batches ==
    { <<c>> : c \in ToolCalls }
    \cup { <<a, b>> : a \in {BookX10, SetDoctorX, AvailX, FindOrtho},
                      b \in {AvailOrtho, FindDentist, BookX10} }

\* the messages without tool calls the model may answer with
FinalMsgs ==
    { [content |-> "Booked.", tool_calls |-> NoToolCalls],
      [content |-> Null, tool_calls |-> ToolCallList(<<>>)],
      [content |-> Absent, tool_calls |-> NullToolCalls] }

\* the batch as received in the given round: each call carries its correlation id
Stamp(batch, round) ==
    [i \in DOMAIN batch |-> [id |-> <<round, i>>, function |-> batch[i].function]]

\* a variant of ContentOf without the `or ""`: a null content is returned as it is
ContentOf_NoDefault(m) == IF m.content = Absent THEN "" ELSE m.content

\* assistant_msg.get("content", "") or ""
ContentOf(m) == IF m.content \in {Absent, Null} THEN "" ELSE m.content

\* assistant_msg.get("tool_calls") or []
ToolCallsOf(m) == IF m.tool_calls.kind = "list" THEN m.tool_calls.list ELSE <<>>

----------------------------------------------------------------------------
(* The session: main() and run_turn() of both assistants *)

SystemMsg == Msg("system", "SYSTEM_PROMPT")

Init ==
    /\ impl = "csv"
    /\ apptfile \in {NoFile, OldFile}
    /\ AVAILABILITY = AVAILABILITY0
    /\ APPOINTMENTS = <<>>
    /\ now = 0
    /\ last = NoCall
    /\ procs = NoProcs
    /\ variant \in {"main", "state"}
    /\ pc = "input"
    /\ messages = IF variant = "main" THEN <<SystemMsg, SpecialtiesMsg>> ELSE <<>>
    /\ pending = <<>>
    /\ state = State0
    /\ last_assistant = Null
    /\ reply = [kind |-> "none", text |-> ""]
    /\ requests = 0
    /\ error = "none"

\* main(): read a line; leave on exit/quit, else put the user message in the transcript
UserInput ==
    /\ pc = "input"
    /\ \E raw \in UserTexts :
          LET user_text == Strip(raw)
          IN IF Lower(user_text) \in {"exit", "quit"}
             THEN /\ pc' = "exited"
                  /\ UNCHANGED messages
             ELSE /\ pc' = "call_llm"
                  /\ messages' =
                        IF variant = "main"
                        THEN Append(messages, Msg("user", user_text))
                        ELSE <<SystemMsg, Msg("system", state_snapshot(state)), SpecialtiesMsg>>
                             \o (IF last_assistant \notin {Null, ""}
                                 THEN <<Msg("assistant", last_assistant)>> ELSE <<>>)
                             \o <<Msg("user", user_text)>>
    /\ UNCHANGED <<variant, pending, state, last_assistant, reply, requests, error>>
    /\ UNCHANGED storevars

\* run_turn: the model answers without tool calls; the turn returns its content
LlmFinalReply ==
    /\ pc = "call_llm"
    /\ requests < MaxRequests
    /\ \E m \in FinalMsgs :
          /\ ToolCallsOf(m) = <<>>
          /\ messages' = Append(messages, AssistantMsg(m.content, m.tool_calls))
          /\ reply' = [kind |-> "final", text |-> ContentOf(m)]
          /\ last_assistant' = IF variant = "state" THEN ContentOf(m) ELSE last_assistant
    /\ requests' = requests + 1
    /\ pc' = "input"
    /\ UNCHANGED <<variant, pending, state, error>>
    /\ UNCHANGED storevars

\* run_turn: the model answers with a batch of tool calls
LlmToolCalls ==
    /\ pc = "call_llm"
    /\ requests < MaxRequests
    /\ \E b \in Batches :
          LET tool_calls == Stamp(b, requests + 1)
          IN /\ messages' = Append(messages, AssistantMsg(Null, ToolCallList(tool_calls)))
             /\ pending' = tool_calls
    /\ requests' = requests + 1
    /\ pc' = "tools"
    /\ UNCHANGED <<variant, state, last_assistant, reply, error>>
    /\ UNCHANGED storevars

\* call_llm raises HTTPError; main() reports it and leaves the loop
LlmHttpError ==
    /\ pc = "call_llm"
    /\ requests < MaxRequests
    /\ requests' = requests + 1
    /\ pc' = "aborted"
    /\ error' = "HTTPError"
    /\ UNCHANGED <<variant, messages, pending, state, last_assistant, reply>>
    /\ UNCHANGED storevars

\* assistant-tools-main.py: process the next tool call of the batch
ExecToolMain ==
    /\ variant = "main"
    /\ pc = "tools"
    /\ pending # <<>>
    /\ LET tc == Head(pending)
           r == DispatchMain(tc, apptfile, now)
       IN /\ Len(r.file.rows) <= MaxAppts
          /\ apptfile' = r.file
          /\ CASE r.kind = "crash" ->
                    /\ pc' = "crashed"
                    /\ error' = r.exc
                    /\ pending' = <<>>
                    /\ UNCHANGED <<messages, reply>>
               [] r.kind = "guard" ->
                    /\ pc' = "input"
                    /\ reply' = [kind |-> "guard", text |-> r.val]
                    /\ pending' = <<>>
                    /\ UNCHANGED <<messages, error>>
               [] r.kind = "result" ->
                    /\ messages' = Append(messages, ToolMsg(tc.id, r.val))
                    /\ pending' = Tail(pending)
                    /\ pc' = IF Tail(pending) = <<>> THEN "call_llm" ELSE "tools"
                    /\ UNCHANGED <<reply, error>>
    /\ UNCHANGED <<variant, state, last_assistant, requests>>
    /\ UNCHANGED <<impl, AVAILABILITY, APPOINTMENTS, now, last, procs>>

\* assistant-tools-state-main.py: process the next tool call of the batch
ExecToolState ==
    /\ variant = "state"
    /\ pc = "tools"
    /\ pending # <<>>
    /\ LET tc == Head(pending)
           r == DispatchState(tc, apptfile, now, state)
       IN /\ Len(r.file.rows) <= MaxAppts
          /\ apptfile' = r.file
          /\ state' = r.state
          /\ CASE r.kind = "crash" ->
                    /\ pc' = "crashed"
                    /\ error' = r.exc
                    /\ pending' = <<>>
                    /\ UNCHANGED messages
               [] r.kind = "result" ->
                    /\ messages' = Append(messages, ToolMsg(tc.id, r.val))
                    /\ pending' = Tail(pending)
                    /\ pc' = IF Tail(pending) = <<>> THEN "call_llm" ELSE "tools"
                    /\ UNCHANGED error
    /\ UNCHANGED <<variant, last_assistant, reply, requests>>
    /\ UNCHANGED <<impl, AVAILABILITY, APPOINTMENTS, now, last, procs>>

Next ==
    \/ UserInput
    \/ LlmFinalReply
    \/ LlmToolCalls
    \/ LlmHttpError
    \/ ExecToolMain
    \/ ExecToolState

Spec == Init /\ [][Next]_vars

----------------------------------------------------------------------------
(* Properties of the domain operations in sequential use (SpecStore) *)

\* the (doctor, date, time) of a stored record of either store
SlotOfRow(a) == <<a.doctor_name, a.date_iso, a.time_24h>>
SlotOfMem(a) == <<a.doctor, a.date, a.time>>

\* s without the entries equal to t, order kept
Without(s, t) == SelectSeq(s, LAMBDA x : x # t)

\* the members of a list
Elems(s) == {s[i] : i \in DOMAIN s}

AllDoctors == DoctorArgs \cup DOMAIN load_schedules

\* C1: in sequential use no two persisted appointment records share the same
\* (doctor, date, time), and booking again a slot that a stored record holds
\* returns failed / slot_not_available and persists nothing.  The date of a slot is
\* the stored date_iso text, as the code compares it: "2025-12-23" and
\* "2025-12-23T00:00" parse to one calendar day and are two dates here.
C1_NoDoubleBooking ==
    /\ \A i, j \in DOMAIN apptfile.rows :
          SlotOfRow(apptfile.rows[i]) = SlotOfRow(apptfile.rows[j]) => i = j
    /\ \A i, j \in DOMAIN APPOINTMENTS :
          SlotOfMem(APPOINTMENTS[i]) = SlotOfMem(APPOINTMENTS[j]) => i = j
    /\ \A i \in DOMAIN apptfile.rows, p \in PatientArgs :
          LET a == apptfile.rows[i]
              r == book_appointment(apptfile, now, a.doctor_name, a.date_iso, a.time_24h, p)
          IN /\ r.exc = "none"
             /\ r.val = [status |-> "failed", reason |-> "slot_not_available"]
             /\ r.file = apptfile
    /\ \A i \in DOMAIN APPOINTMENTS, p \in PatientArgs :
          LET a == APPOINTMENTS[i]
              r == mem_book_appointment(AVAILABILITY, APPOINTMENTS, a.doctor, a.date, a.time, p)
          IN /\ r.val.status = "failed"
             /\ r.val.reason = "slot_not_available"
             /\ r.appts = APPOINTMENTS

\* a second booking attempt has just failed against a store that holds bookings
C1_Witness ==
    /\ last = [op |-> "book_appointment", outcome |-> "failed"]
    /\ \/ Len(apptfile.rows) >= 2
       \/ Len(APPOINTMENTS) >= 2

\* C2: a successful booking removes exactly the booked time from the availability
\* of that doctor and date, and changes the availability of no other doctor or date.
C2_BookingRemovesExactlyTheSlot ==
    [][ /\ Len(apptfile'.rows) = Len(apptfile.rows) + 1 =>
            LET a == apptfile'.rows[Len(apptfile'.rows)]
            IN \A d \in AllDoctors, date \in AllDates :
                  LET before == get_availability(apptfile, d, date)
                      after == get_availability(apptfile', d, date)
                  IN IF d = a.doctor_name /\ date = a.date_iso
                     THEN /\ before.exc = "none" /\ after.exc = "none"
                          /\ a.time_24h \in Elems(before.val)
                          /\ after.val = Without(before.val, a.time_24h)
                     ELSE after = before
        /\ Len(APPOINTMENTS') = Len(APPOINTMENTS) + 1 =>
            LET a == APPOINTMENTS'[Len(APPOINTMENTS')]
            IN \A d \in AllDoctors, date \in AllDates :
                  LET before == mem_get_availability(AVAILABILITY, d, date)
                      after == mem_get_availability(AVAILABILITY', d, date)
                  IN IF d = a.doctor /\ date = a.date
                     THEN /\ a.time \in Elems(before)
                          /\ after = Without(before, a.time)
                     ELSE after = before
      ]_storevars

\* a booking was confirmed and the doctor's other slot of that day is still open
C2_Witness ==
    /\ last = [op |-> "book_appointment", outcome |-> "confirmed"]
    /\ \/ /\ impl = "csv"
          /\ get_availability(apptfile, "Dr X", "2025-12-22").val = <<"11:00">>
          /\ get_availability(apptfile, "Dr X", "2025-12-23").val = <<"10:00", "11:00">>
       \/ /\ impl = "mem"
          /\ mem_get_availability(AVAILABILITY, "Dr X", "2025-12-23") = <<"11:00">>
          /\ mem_get_availability(AVAILABILITY, "Dr X", "2025-12-24") = <<"10:30", "11:30">>

\* C3: whenever the requested time is not in the availability computed from the
\* store as it is at the call, book_appointment returns failed / slot_not_available
\* and leaves the appointment store as it was.
C3_UnavailableSlotFails ==
    \A d \in AllDoctors, date \in AllDates, t \in TimeArgs, p \in PatientArgs :
        /\ LET av == get_availability(apptfile, d, date)
               r == book_appointment(apptfile, now, d, date, t, p)
           IN (av.exc = "none" /\ t \notin Elems(av.val)) =>
                 /\ r.exc = "none"
                 /\ r.val.status = "failed"
                 /\ r.val.reason = "slot_not_available"
                 /\ r.file = apptfile
        /\ LET av == mem_get_availability(AVAILABILITY, d, date)
               r == mem_book_appointment(AVAILABILITY, APPOINTMENTS, d, date, t, p)
           IN t \notin Elems(av) =>
                 /\ r.val.status = "failed"
                 /\ r.val.reason = "slot_not_available"
                 /\ r.avail = AVAILABILITY
                 /\ r.appts = APPOINTMENTS

\* a booking has just failed although the doctor works that day: the slot was taken
C3_Witness ==
    /\ last = [op |-> "book_appointment", outcome |-> "failed"]
    /\ \/ /\ impl = "csv"
          /\ get_availability(apptfile, "Dr X", "2025-12-22").val = <<>>
       \/ /\ impl = "mem"
          /\ mem_get_availability(AVAILABILITY, "Dr Y", "2025-12-23") = <<>>

\* C9: for a doctor name that is no known doctor, get_availability returns the
\* empty list for every date argument, whatever the store holds, and does not raise.
C9_UnknownDoctorEmpty ==
    \A d \in AllDoctors, date \in AllDates :
        /\ d \notin DOMAIN load_schedules =>
              get_availability(apptfile, d, date) = Ret(<<>>)
        /\ d \notin {"Dr X", "Dr Y", "Dr A"} =>
              mem_get_availability(AVAILABILITY, d, date) = <<>>

\* the lookup ran against a store that holds rows, one of them of an unknown doctor
C9_Witness ==
    /\ last = [op |-> "get_availability", outcome |-> "returned"]
    /\ \/ /\ Len(apptfile.rows) >= 2
          /\ \E i \in DOMAIN apptfile.rows :
                apptfile.rows[i].doctor_name \notin DOMAIN load_schedules
       \/ Len(APPOINTMENTS) >= 2

\* the weekday of each calendar day the callers name (Monday is 0)
CalendarWeekday(date) ==
    CASE date = "2025-12-22" -> 0
      [] date = "2025-12-23" -> 1
      [] date = "2025-12-23T00:00" -> 1
      [] date = "2025-12-24" -> 2

\* C10: for a known doctor and a valid date, get_availability returns the empty
\* list on a day the doctor does not work, and otherwise the configured slots, in
\* configured order, that no stored appointment of that doctor and date takes.
C10_AvailabilityIsSlotsMinusBooked ==
    \A d \in DOMAIN load_schedules, date \in AllDates \ {""} :
        LET rule == load_schedules[d]
            taken(s) == \E i \in DOMAIN apptfile.rows :
                            /\ apptfile.rows[i].doctor_name = d
                            /\ apptfile.rows[i].date_iso = date
                            /\ apptfile.rows[i].time_24h = s
        IN get_availability(apptfile, d, date) =
              IF CalendarWeekday(date) \notin Elems(rule.working_days)
              THEN Ret(<<>>)
              ELSE Ret(SelectSeq(rule.slots, LAMBDA s : ~taken(s)))

\* the lookup ran with one slot of Dr X taken on Monday and both open on Tuesday,
\* while another doctor holds a booking too
C10_Witness ==
    /\ last = [op |-> "get_availability", outcome |-> "returned"]
    /\ get_availability(apptfile, "Dr X", "2025-12-22").val = <<"11:00">>
    /\ get_availability(apptfile, "Dr X", "2025-12-23").val = <<"10:00", "11:00">>
    /\ get_availability(apptfile, "Dr Y", "2025-12-23").val = <<"12:00">>
    /\ get_availability(apptfile, "Dr Y", "2025-12-22").val = <<>>

\* the step is not a successful booking
NotABooking == ~(last'.op = "book_appointment" /\ last'.outcome = "confirmed")

\* C11: get_availability is a pure read: a lookup changes neither store, and every
\* step other than a successful booking (lookups, searches, failed bookings) leaves
\* the result of get_availability the same for every doctor and date.
C11_GetAvailabilityIsAPureRead ==
    [][ /\ last'.op = "get_availability" =>
              /\ apptfile' = apptfile
              /\ AVAILABILITY' = AVAILABILITY
              /\ APPOINTMENTS' = APPOINTMENTS
        /\ NotABooking =>
              \/ apptfile' = apptfile /\ AVAILABILITY' = AVAILABILITY
              \/ \A d \in AllDoctors, date \in AllDates :
                    /\ get_availability(apptfile', d, date) = get_availability(apptfile, d, date)
                    /\ mem_get_availability(AVAILABILITY', d, date) =
                          mem_get_availability(AVAILABILITY, d, date)
      ]_vars

\* a lookup has just run against a store in which this session booked a slot
C11_Witness ==
    /\ last = [op |-> "get_availability", outcome |-> "returned"]
    /\ \/ \E i \in DOMAIN apptfile.rows : apptfile.rows[i].appointment_id >= 0
       \/ /\ Len(APPOINTMENTS) >= 1
          /\ mem_get_availability(AVAILABILITY, "Dr X", "2025-12-23") = <<"10:00">>

\* C12: no two stored appointment records carry the same identifier, bookings made
\* within one clock second included.
C12_IdentifiersAreUnique ==
    /\ \A i, j \in DOMAIN apptfile.rows :
          apptfile.rows[i].appointment_id = apptfile.rows[j].appointment_id => i = j
    /\ \A i, j \in DOMAIN APPOINTMENTS :
          APPOINTMENTS[i].id = APPOINTMENTS[j].id => i = j

\* C12, demo store only: its identifiers count the records and never repeat
C12_DemoIdentifiersAreUnique ==
    \A i, j \in DOMAIN APPOINTMENTS : APPOINTMENTS[i].id = APPOINTMENTS[j].id => i = j

\* s is t with exactly one record added at the end
AddsOne(s, t) == Len(s) = Len(t) + 1 /\ SubSeq(s, 1, Len(t)) = t

\* C14: the appointment store is append-only: a successful booking adds exactly one
\* record after the records already stored, and from the store it started from
\* every call either confirms and adds the one record carrying its doctor, date,
\* time and patient, or leaves the store as it is; every step that is not a
\* successful booking leaves the stored records as they are.
C14_StoreIsAppendOnly ==
    [][ IF ~NotABooking /\ now' = now
        THEN /\ \/ AddsOne(apptfile'.rows, apptfile.rows) /\ APPOINTMENTS' = APPOINTMENTS
                \/ AddsOne(APPOINTMENTS', APPOINTMENTS) /\ apptfile' = apptfile
             /\ \A d \in AllDoctors, date \in AllDates, t \in TimeArgs, p \in PatientArgs :
                   /\ LET r == book_appointment(apptfile, now, d, date, t, p)
                      IN IF r.exc = "none" /\ r.val.status = "confirmed"
                         THEN /\ AddsOne(r.file.rows, apptfile.rows)
                              /\ LET a == r.file.rows[Len(r.file.rows)]
                                 IN /\ SlotOfRow(a) = <<d, date, t>>
                                    /\ a.patient_name = p.name
                                    /\ a.patient_phone = p.phone
                         ELSE r.file = apptfile
                   /\ LET r == mem_book_appointment(AVAILABILITY, APPOINTMENTS, d, date, t, p)
                      IN IF r.val.status = "confirmed"
                         THEN /\ AddsOne(r.appts, APPOINTMENTS)
                              /\ LET a == r.appts[Len(r.appts)]
                                 IN SlotOfMem(a) = <<d, date, t>> /\ a.patient = p
                         ELSE r.appts = APPOINTMENTS
        ELSE apptfile' = apptfile /\ APPOINTMENTS' = APPOINTMENTS
      ]_vars

\* a booking was just added behind a row that an earlier session left, or behind an
\* earlier booking of the demo store
C14_Witness ==
    /\ last = [op |-> "book_appointment", outcome |-> "confirmed"]
    /\ \/ /\ Len(apptfile.rows) = 2
          /\ apptfile.rows[1] = OldFile.rows[1]
          /\ apptfile.rows[2].patient_phone = "555"
       \/ /\ Len(APPOINTMENTS) = 2
          /\ APPOINTMENTS[1].id = 1

----------------------------------------------------------------------------
(* Properties of the turn orchestrator (Spec) *)

\* the call the orchestrator is about to process, and its parsed arguments
NextCall == Head(pending)
NextArgs ==
    IF NextCall.function.arguments.kind = "obj" THEN NextCall.function.arguments.obj ELSE <<>>

\* no doctor record carries this name, letter case aside
NoDoctorNamed(name) ==
    \A i \in DOMAIN load_doctors : Lower(load_doctors[i].doctor_name) # Lower(name)

\* the turn ends here with the fixed message: nothing is executed or appended, the
\* rest of the batch is dropped, and control is back at the prompt with no request sent
ShortCircuits ==
    /\ pc' = "input"
    /\ reply' = [kind |-> "guard", text |-> CANNED]
    /\ messages' = messages
    /\ apptfile' = apptfile
    /\ pending' = <<>>
    /\ requests' = requests

\* the model asked for the availability of a name that is no doctor
AsksAvailabilityOfNoDoctor ==
    /\ pc = "tools" /\ pending # <<>>
    /\ NextCall.function.name = "get_availability"
    /\ NextCall.function.arguments.kind = "obj"
    /\ NoDoctorNamed(Get(NextArgs, "doctor_name", ""))

\* C4: a get_availability call whose doctor_name matches no doctor record ends the
\* turn at once with the fixed message: the lookup is not executed, no later call of
\* the batch is executed, no further request is sent to the model.
C4_UnknownDoctorShortCircuits ==
    [][AsksAvailabilityOfNoDoctor => ShortCircuits]_vars

\* C4, transcript-keeping assistant only: there the guard does end the turn
C4_GuardOfMainVariant ==
    [][(variant = "main" /\ AsksAvailabilityOfNoDoctor) => ShortCircuits]_vars

\* the model asked for the doctors of a specialty nobody has
AsksDoctorsOfNoSpecialty ==
    /\ pc = "tools" /\ pending # <<>>
    /\ NextCall.function.name = "find_doctors"
    /\ NextCall.function.arguments.kind \in {"obj", "empty"}
    /\ \A i \in DOMAIN load_doctors :
          Lower(load_doctors[i].specialty) # Lower(Get(NextArgs, "specialty", ""))

\* C5: a find_doctors call that returns an empty result set ends the turn at once
\* with the fixed message, without a tool result appended, a later call of the batch
\* executed, or a further request to the model.
C5_EmptySearchShortCircuits ==
    [][AsksDoctorsOfNoSpecialty => ShortCircuits]_vars

\* C5, transcript-keeping assistant only: there the guard does end the turn
C5_GuardOfMainVariant ==
    [][(variant = "main" /\ AsksDoctorsOfNoSpecialty) => ShortCircuits]_vars

\* C6: update_state(args) overwrites each state field whose key args carries with
\* the supplied value (null clears it), keeps every field whose key args lacks, and
\* never adds a key that is not one of the seven fields.
C6_UpdateStateMerges ==
    [][ ( /\ variant = "state"
          /\ pc = "tools" /\ pending # <<>>
          /\ NextCall.function.name = "update_state"
          /\ NextCall.function.arguments.kind \in {"obj", "empty"} )
        => /\ DOMAIN state' = StateFields
           /\ \A k \in StateFields :
                 state'[k] = IF k \in DOMAIN NextArgs THEN NextArgs[k] ELSE state[k]
      ]_vars

\* two updates ran: the first set patient_name and doctor_name, the second cleared
\* doctor_name with a null and carried an unknown key
C6_Witness ==
    /\ variant = "state"
    /\ requests = 2
    /\ pc = "call_llm"
    /\ state.patient_name = "Asha"
    /\ state.doctor_name = Null
    /\ messages[Len(messages)].role = "tool"
    /\ messages[Len(messages)].content =
          JsonDumps([status |-> "ok", updated |-> {"doctor_name", "notes"}])

\* C7: a turn returns the content of the first assistant message without tool calls
\* ("" when it has none) as soon as that message arrives, and sends no further
\* request to the model in that turn.
C7_FirstPlainMessageIsTheReply ==
    [][ /\ ( /\ pc = "call_llm"
             /\ Len(messages') = Len(messages) + 1
             /\ messages'[Len(messages')].tool_calls.list = <<>> )
           => LET m == messages'[Len(messages')]
              IN /\ m.role = "assistant"
                 /\ reply' = [kind |-> "final",
                              text |-> IF m.content \in {Absent, Null} THEN "" ELSE m.content]
                 /\ pc' = "input"
                 /\ pending' = <<>>
                 /\ requests' = requests + 1
        /\ requests' # requests => pc = "call_llm"
      ]_vars

\* a turn made two requests: the first answer asked for a tool, the second carried
\* neither tool calls nor content, and the turn returned the empty string
C7_Witness ==
    /\ pc = "input"
    /\ requests = 2
    /\ reply = [kind |-> "final", text |-> ""]
    /\ Len(messages) >= 3
    /\ messages[Len(messages) - 1].role = "tool"
    /\ messages[Len(messages)].role = "assistant"
    /\ messages[Len(messages)].content = Null

\* C8: no tool call's argument string makes a turn fail: whatever the arguments, the
\* turn ends with a reply or a guard message, never with a raised error.
C8_NoArgumentStringFailsTheTurn ==
    pc # "crashed"

\* the state-keeping assistant is about to process an update_state call whose
\* argument string parses
RunsUpdateState ==
    /\ variant = "state"
    /\ pc = "tools" /\ pending # <<>>
    /\ NextCall.function.name = "update_state"
    /\ NextCall.function.arguments.kind \in {"obj", "empty"}

\* C13: the acknowledgement of update_state lists exactly the keys that were applied:
\* a key of the argument object that is no state field is not in the list.
C13_AckListsAppliedKeys ==
    [][ RunsUpdateState =>
           messages' = Append(messages,
                              ToolMsg(NextCall.id,
                                      [status |-> "ok",
                                       updated |-> DOMAIN NextArgs \cap StateFields]))
      ]_vars

\* C13 as the code has it: the acknowledgement lists every key of the argument object
C13_AckListsEveryKey ==
    [][ RunsUpdateState =>
           messages' = Append(messages,
                              ToolMsg(NextCall.id,
                                      [status |-> "ok", updated |-> DOMAIN NextArgs]))
      ]_vars

\* the index of the last user message of the transcript (0 when there is none)
LastUser(msgs) ==
    LET at == {i \in DOMAIN msgs : msgs[i].role = "user"}
    IN IF at = {} THEN 0 ELSE CHOOSE i \in at : \A j \in at : j <= i

\* the assistant message at k is followed by one tool message per tool call it
\* carries, in the order of the calls, each with its call's correlation identifier
AnsweredAt(msgs, k) ==
    LET calls == msgs[k].tool_calls.list
    IN /\ k + Len(calls) <= Len(msgs)
       /\ \A i \in DOMAIN calls :
             /\ msgs[k + i].role = "tool"
             /\ msgs[k + i].tool_call_id = calls[i].id

\* the result execute_tool returns for the call the orchestrator is about to process
NextResult ==
    IF variant = "main"
    THEN execute_tool(NextCall.function.name, NextCall.function.arguments, apptfile, now).val
    ELSE execute_tool_state(NextCall.function.name, NextCall.function.arguments,
                            apptfile, now, state).val

\* C16: within a turn the transcript only grows; an assistant message is appended
\* as it is received, before any of its tool calls runs; each tool call that
\* completes appends one tool message with the call's correlation identifier and its
\* JSON-encoded result, in the order of the batch; a request is sent only when every
\* tool call of the turn's batches has its tool message.
C16_TranscriptGrowsInOrder ==
    [][ /\ pc # "input" =>
              /\ Len(messages') >= Len(messages)
              /\ SubSeq(messages', 1, Len(messages)) = messages
        /\ (requests' # requests /\ error' = "none") =>
              /\ Len(messages') = Len(messages) + 1
              /\ messages'[Len(messages')].role = "assistant"
              /\ pending' = messages'[Len(messages')].tool_calls.list
        /\ (pc = "tools" /\ pc' \in {"tools", "call_llm"}) =>
              /\ messages' = Append(messages, ToolMsg(NextCall.id, NextResult))
              /\ pending' = Tail(pending)
        /\ requests' # requests =>
              /\ pending = <<>>
              /\ \A k \in (LastUser(messages) + 1) .. Len(messages) :
                    messages[k].role = "assistant" => AnsweredAt(messages, k)
      ]_vars

\* both calls of a batch of two have run and the next request is about to be sent
C16_Witness ==
    /\ pc = "call_llm"
    /\ requests = 1
    /\ Len(messages) >= 3
    /\ messages[Len(messages) - 2].role = "assistant"
    /\ Len(messages[Len(messages) - 2].tool_calls.list) = 2
    /\ messages[Len(messages) - 1].tool_call_id = <<1, 1>>
    /\ messages[Len(messages)].tool_call_id = <<1, 2>>
    /\ messages[Len(messages)].role = "tool"

\* C19: the seven state fields are unset at session start, and only the processing
\* of an update_state tool call changes the state: every other tool call, a user
\* message and a model reply leave it as it is.
C19_OnlyUpdateStateChangesState ==
    /\ \A k \in StateFields : state[k] = Null
    /\ DOMAIN state = StateFields
    /\ [][ state' # state =>
              /\ variant = "state"
              /\ pc = "tools" /\ pending # <<>>
              /\ NextCall.function.name = "update_state"
         ]_vars

\* the state set by an update_state call is still there after a booking of the same
\* batch, the model's final reply and the end of the turn
C19_Witness ==
    /\ variant = "state"
    /\ pc = "input"
    /\ reply.kind = "final"
    /\ state = [State0 EXCEPT !["doctor_name"] = "Dr X"]
    /\ \E i \in DOMAIN apptfile.rows : apptfile.rows[i].patient_name = "Asha"

\* C20: the state-keeping assistant rebuilds the transcript when a turn starts: the
\* system prompt, one snapshot of the state as it is now, the specialties, the
\* previous reply if there is one, and the new user message last; no tool message
\* and no message carrying tool calls is in it.
C20_TranscriptIsRebuiltEachTurn ==
    [][ (variant = "state" /\ pc = "input" /\ pc' = "call_llm") =>
           LET n == Len(messages')
           IN /\ n \in {4, 5}
              /\ \A i \in 1 .. n :
                    /\ messages'[i].role =
                          (IF i <= 3 THEN "system" ELSE IF i = n THEN "user" ELSE "assistant")
                    /\ messages'[i].tool_calls.list = <<>>
              /\ messages'[1] = SystemMsg
              /\ messages'[2].content[1] = "CURRENT BOOKING STATE (authoritative):"
              /\ messages'[2].content[2] =
                    [k \in StateFields |-> IF state[k] = Null THEN "None" ELSE state[k]]
              /\ messages'[3] = SpecialtiesMsg
              /\ n = 5 => reply.kind = "final" /\ messages'[4].content = reply.text
      ]_vars

\* the second turn starts after a turn that set the doctor and ended with a reply:
\* the transcript holds the new snapshot and that reply, and nothing of the tool calls
C20_Witness ==
    /\ variant = "state"
    /\ pc = "call_llm"
    /\ requests = 2
    /\ Len(messages) = 5
    /\ messages[2].content[2].doctor_name = "Dr X"
    /\ messages[4].content = "Booked."
    /\ messages[5].role = "user"

\* the step ends a turn
TurnEnds == pc \in {"call_llm", "tools"} /\ pc' \notin {"call_llm", "tools"}

\* C18: a turn ends only by a final reply, by a guard message, or by a transport
\* error that leaves run_turn; until then it goes on asking the model.
C18_TurnEndsByReplyGuardOrTransportError ==
    [][ TurnEnds =>
           \/ pc' = "input" /\ reply'.kind \in {"final", "guard"}
           \/ pc' = "aborted" /\ error' = "HTTPError"
      ]_vars

\* C18 as the code has it: an error raised while a tool call is parsed or executed
\* ends the turn too, and the session with it
C18_TurnEndsAlsoByToolError ==
    [][ TurnEnds =>
           \/ pc' = "input" /\ reply'.kind \in {"final", "guard"}
           \/ pc' = "aborted" /\ error' = "HTTPError"
           \/ /\ pc = "tools" /\ pc' = "crashed"
              /\ error' \in {"JSONDecodeError", "KeyError", "ValueError"}
      ]_vars

----------------------------------------------------------------------------
(* Properties of ConversationState (SpecReady) *)

\* the attributes a booking needs
BookingFields == {"patient_name", "patient_phone", "doctor_name", "date_iso", "time_24h"}

\* C15: is_ready_to_book is true exactly when patient_name, patient_phone,
\* doctor_name, date_iso and time_24h are all set, whatever specialty and patient_age
\* hold; an attribute holding the empty string counts as set.
C15_ReadyIffAllFiveSet ==
    last.op = "is_ready_to_book" =>
        (last.outcome = "True" <=> \A k \in BookingFields : state[k] # Null)

\* C15 as the code has it: an attribute counts only when it holds a non-empty text
C15_ReadyIffAllFiveNonEmpty ==
    last.op = "is_ready_to_book" =>
        (last.outcome = "True" <=> \A k \in BookingFields : state[k] \notin {Null, ""})

----------------------------------------------------------------------------
(* Properties of book_appointment under two processes (SpecRace) *)

\* the (doctor, date, time) process p asked for
SlotOfProc(p) == <<procs[p].args.doctor_name, procs[p].args.date_iso, procs[p].args.time_24h>>

\* the rows of the file that hold the slot
RowsOfSlot(slot) == {i \in DOMAIN apptfile.rows : SlotOfRow(apptfile.rows[i]) = slot}

\* p and q asked for the same slot and each made its availability test before the
\* other wrote: both read the same number of rows and both found the time open
BothTestedBeforeEitherWrote(p, q) ==
    /\ p # q
    /\ procs[p].passed /\ procs[q].passed
    /\ SlotOfProc(p) = SlotOfProc(q)
    /\ procs[p].seen = procs[q].seen

\* C17: when two processes call book_appointment for the same doctor, date and time
\* and both availability tests run before either record is written, both calls
\* return confirmed and the file holds two records of that slot; the file holds two
\* records of one slot only when two calls overlapped in that way.
C17_CheckThenWriteRaces ==
    /\ \A p, q \in Procs :
          ( /\ BothTestedBeforeEitherWrote(p, q)
            /\ procs[p].pc = "done" /\ procs[q].pc = "done"
            /\ DOMAIN procs[p].args.patient = {"name", "phone"}
            /\ DOMAIN procs[q].args.patient = {"name", "phone"} )
          => /\ procs[p].outcome = "confirmed"
             /\ procs[q].outcome = "confirmed"
             /\ Cardinality(RowsOfSlot(SlotOfProc(p))) = 2
    /\ (\E i, j \in DOMAIN apptfile.rows :
            i # j /\ SlotOfRow(apptfile.rows[i]) = SlotOfRow(apptfile.rows[j]))
          => \E p, q \in Procs : BothTestedBeforeEitherWrote(p, q)

\* both processes were confirmed for Dr X on Monday at 10:00 and the file holds both
\* records behind the row of an earlier session
C17_Witness ==
    /\ procs[1].pc = "done" /\ procs[2].pc = "done"
    /\ procs[1].outcome = "confirmed" /\ procs[2].outcome = "confirmed"
    /\ SlotOfProc(1) = <<"Dr X", "2025-12-22", "10:00">>
    /\ SlotOfProc(2) = <<"Dr X", "2025-12-22", "10:00">>
    /\ Len(apptfile.rows) = 3
    /\ Cardinality(RowsOfSlot(<<"Dr X", "2025-12-22", "10:00">>)) = 2

----------------------------------------------------------------------------
(* Properties of the session loop and of the guards (Spec) *)

\* the session is over
Ended(at) == at \in {"exited", "aborted", "crashed"}

\* the step ends a turn of the transcript-keeping assistant with the guard's message
GuardFires ==
    /\ variant = "main"
    /\ pc = "tools" /\ pc' = "input"

\* C21: after a guard's message the session goes on with the next input; a transport
\* failure ends it and no input is processed afterwards; apart from that the session
\* ends only on the input exit or quit, in any letter case.
C21_SessionEndsByTransportErrorOrExit ==
    [][ variant = "main" =>
          /\ GuardFires => (reply'.kind = "guard" /\ error' = "none")
          /\ (pc = "call_llm" /\ requests' # requests /\ messages' = messages) =>
                (pc' = "aborted" /\ error' = "HTTPError")
          /\ ~Ended(pc)
          /\ Ended(pc') =>
                \/ pc = "call_llm" /\ pc' = "aborted" /\ error' = "HTTPError"
                \/ pc = "input" /\ pc' = "exited"
      ]_vars

\* C21 as the code has it: an error raised while a tool call is parsed or executed
\* ends the session as well
C21_SessionEndsAlsoByToolError ==
    [][ variant = "main" =>
          /\ GuardFires => (reply'.kind = "guard" /\ error' = "none")
          /\ (pc = "call_llm" /\ requests' # requests /\ messages' = messages) =>
                (pc' = "aborted" /\ error' = "HTTPError")
          /\ ~Ended(pc)
          /\ Ended(pc') =>
                \/ pc = "call_llm" /\ pc' = "aborted" /\ error' = "HTTPError"
                \/ pc = "input" /\ pc' = "exited"
                \/ pc = "tools" /\ pc' = "crashed"
      ]_vars

\* every tool call of every assistant message of the transcript has, later in the
\* transcript, a tool message with its correlation identifier
WellFormed(msgs) ==
    \A k \in DOMAIN msgs :
       \A i \in DOMAIN msgs[k].tool_calls.list :
          \E j \in (k + 1) .. Len(msgs) :
             /\ msgs[j].role = "tool"
             /\ msgs[j].tool_call_id = msgs[k].tool_calls.list[i].id

\* C22: every transcript the transcript-keeping assistant sends to the model is well
\* formed, in the turns after a guard short-circuit too.
C22_SentTranscriptsAreWellFormed ==
    [][ (variant = "main" /\ requests' # requests) => WellFormed(messages) ]_vars

\* the doctor record whose name the guard takes the given name for
RecordNamed(name) ==
    CHOOSE i \in DOMAIN load_doctors :
        Lower(Strip(load_doctors[i].doctor_name)) = Lower(Strip(name))

\* the transcript-keeping assistant is about to process a get_availability call
\* whose doctor_name the guard accepts and whose date parses
AsksAvailabilityOfAcceptedName ==
    /\ variant = "main"
    /\ pc = "tools" /\ pending # <<>>
    /\ NextCall.function.name = "get_availability"
    /\ NextCall.function.arguments.kind = "obj"
    /\ doctor_exists(Get(NextArgs, "doctor_name", ""))
    /\ FromIsoFormatDate(Get(NextArgs, "date_iso", "")) # NotADate

\* C23: a doctor_name that the guard accepts is resolved by get_availability to that
\* doctor's schedule: the call returns what it returns for the name as the doctor
\* record spells it.
C23_GuardAndLookupAgree ==
    [][ AsksAvailabilityOfAcceptedName =>
           messages' =
              Append(messages,
                     ToolMsg(NextCall.id,
                             get_availability(
                                apptfile,
                                load_doctors[RecordNamed(NextArgs.doctor_name)].doctor_name,
                                NextArgs.date_iso).val))
      ]_vars

\* C23 as the code has it: the lookup takes the name letter by letter, so an accepted
\* name that is spelled differently from the schedule's key gets the empty list
C23_LookupTakesTheNameLiterally ==
    [][ AsksAvailabilityOfAcceptedName =>
           messages' =
              Append(messages,
                     ToolMsg(NextCall.id,
                             IF NextArgs.doctor_name \in DOMAIN load_schedules
                             THEN get_availability(apptfile, NextArgs.doctor_name,
                                                   NextArgs.date_iso).val
                             ELSE <<>>))
      ]_vars

\* the index of the last assistant message of the transcript
LastAssistant(msgs) ==
    CHOOSE k \in DOMAIN msgs :
        /\ msgs[k].role = "assistant"
        /\ \A j \in DOMAIN msgs : msgs[j].role = "assistant" => j <= k

\* C24: when a guard fires, the calls of the batch before the guard-firing call have
\* run: each has its tool message, and a booking confirmed among them is in the
\* store and stays there; the guard step itself changes neither store nor
\* transcript, and the calls after it are dropped; no step ever removes a record.
C24_GuardUndoesNothing ==
    [][ /\ GuardFires =>
             LET k == LastAssistant(messages)
                 calls == messages[k].tool_calls.list
                 done == Len(calls) - Len(pending)
             IN /\ reply' = [kind |-> "guard", text |-> CANNED]
                /\ apptfile' = apptfile
                /\ messages' = messages
                /\ pending' = <<>>
                /\ Len(messages) = k + done
                /\ \A i \in 1 .. done :
                      /\ messages[k + i].role = "tool"
                      /\ messages[k + i].tool_call_id = calls[i].id
                      /\ ( /\ calls[i].function.name = "book_appointment"
                            /\ messages[k + i].content[2].status = "confirmed" )
                         => \E r \in DOMAIN apptfile'.rows :
                               apptfile'.rows[r] = messages[k + i].content[2].appointment
        /\ Len(apptfile'.rows) >= Len(apptfile.rows)
        /\ SubSeq(apptfile'.rows, 1, Len(apptfile.rows)) = apptfile.rows
      ]_vars

\* a turn booked Dr X and then asked for the availability of a name that is no
\* doctor: the reply is the guard's message and the booking is in the store
C24_Witness ==
    /\ variant = "main"
    /\ pc = "input"
    /\ reply = [kind |-> "guard", text |-> CANNED]
    /\ Len(messages) >= 2
    /\ Len(messages[Len(messages) - 1].tool_calls.list) = 2
    /\ messages[Len(messages) - 1].tool_calls.list[1].function.name = "book_appointment"
    /\ messages[Len(messages)].role = "tool"
    /\ messages[Len(messages)].content[2].status = "confirmed"
    /\ \E r \in DOMAIN apptfile.rows :
          /\ apptfile.rows[r].doctor_name = "Dr X"
          /\ apptfile.rows[r].patient_name = "Asha"

----------------------------------------------------------------------------
(* Properties of the two stores side by side (SpecBoth) *)

\* the two stores hold the same open slots for every doctor and date
SameRemainingSlots ==
    \A d \in DoctorArgs, date \in BothDates :
       mem_get_availability(AVAILABILITY, d, date) =
          SlotsNotIn(ConfiguredSlots(d, date),
                     BookedTimes(load_appointments(apptfile), d, date))

\* C25: started with the same open slots, the same calls give the same availability
\* lists and the same confirmed or failed outcomes in both stores, and the slots left
\* in the demo store are the configured slots minus the times booked in the
\* CSV-backed store.
C25_StoresAreEquivalentOnBookings ==
    /\ last.op \in {"get_availability", "book_appointment"} => last.csv = last.mem
    /\ SameRemainingSlots

\* C25 as the code has it: the stores agree as long as every patient of a booking
\* the demo store confirmed carries a name and a phone
C25_StoresAgreeForCompletePatients ==
    (\A i \in DOMAIN APPOINTMENTS :
        {"name", "phone"} \subseteq DOMAIN APPOINTMENTS[i].patient)
    => C25_StoresAreEquivalentOnBookings

\* both stores have confirmed a booking and the stores still agree
C25_AgreeingBooking ==
    /\ last.op = "book_appointment"
    /\ last.csv = "confirmed" /\ last.mem = "confirmed"
    /\ Len(apptfile.rows) = 2 /\ Len(APPOINTMENTS) = 2
    /\ SameRemainingSlots

====
